---- MODULE Spec2Model ----
(***************************************************************************)
(* Wedding Cut Tracker (src/app.py): a Streamlit script over four Google   *)
(* Sheets tables.  Every user interaction reruns the whole script; one     *)
(* action of this model is one such script run.                            *)
(*                                                                         *)
(* Quantities (grams, kcal) are integers counted in tenths, the precision  *)
(* at which the script records them; FoodDatabase values are counted in    *)
(* hundredths.  Arithmetic is exact (no binary floating point error).      *)
(* A timestamp is an integer, day * SlotsPerDay + slot; slot 0 is          *)
(* midnight.                                                               *)
(***************************************************************************)
EXTENDS Integers, Sequences, FiniteSets, TLC

VARIABLES
    store,          \* the spreadsheet: table name -> its rows, in sheet order
    cache,          \* st.cache_data of read_records: table name -> entry
    today,          \* datetime.date.today(), a day number
    nav_group,      \* st.session_state.nav_group
    page,           \* the page the sidebar radio selects
    badge_pop_key,  \* st.session_state["badge_pop_key"]
    targets,        \* the CONFIG block's targets
    view,           \* what the last script run showed and did
    nappend,        \* rows this session has appended
    fired           \* the days on which the badge celebration fired, in order

vars == <<store, cache, today, nav_group, page, badge_pop_key, targets, view,
          nappend, fired>>

(***************************************************************************)
(* CONFIG                                                                  *)
(***************************************************************************)
CAL_TARGET == 1200
PROTEIN_TARGET == 110
FAT_TARGET == 45
CARB_TARGET == 130
TTL == 60
\* round(x, 1): recorded quantities have one decimal, so the unit is 1/10.
Deci == 10
\* FoodDatabase cells are read with two decimals: the unit is 1/100.
Centi == 100

(***************************************************************************)
(* Bounds of the model                                                     *)
(***************************************************************************)
\* longest run of consecutive logged days already in the Meals sheet
MaxHist == 13
\* rows one session appends, over all tables
MaxAppends == 2
\* calendar days the session lives through after its first day
MaxDays == 1
\* seconds that pass in one Tick
TickSeconds == 30
\* distinct times of day a hand-written timestamp may carry
SlotsPerDay == 2

Tables == {"Meals", "Weights", "Workouts", "FoodDatabase"}
Today0 == MaxHist + 3
NaT == -1

Min(a, b) == IF a <= b THEN a ELSE b
Max(a, b) == IF a >= b THEN a ELSE b

RECURSIVE GCD(_, _)
GCD(a, b) == IF b = 0 THEN a ELSE GCD(b, a % b)
LCM(a, b) == (a \div GCD(a, b)) * b

RECURSIVE SumCol(_, _)
SumCol(rows, col) ==
    IF rows = <<>> THEN 0 ELSE rows[1][col] + SumCol(Tail(rows), col)

RECURSIVE SortedSeq(_)
SortedSeq(S) ==
    IF S = {} THEN <<>>
    ELSE LET m == CHOOSE x \in S : \A y \in S : x <= y
         IN <<m>> \o SortedSeq(S \ {m})

Range(s) == {s[i] : i \in DOMAIN s}

(***************************************************************************)
(* Date texts of the "date" column and their parsing                       *)
(***************************************************************************)
\* str(datetime.date.today()): "YYYY-MM-DD"
IsoDate(d) == [form |-> "iso", day |-> d, slot |-> 0]
\* a hand-written "YYYY-MM-DD HH:MM" cell
StampDate(d, s) == [form |-> "stamp", day |-> d, slot |-> s]
\* a cell that is no date
BadDate == [form |-> "bad", day |-> 0, slot |-> 0]

\* pd.to_datetime(x, errors="coerce") on one cell; every cell is parsed on
\* its own, whatever the other cells of the column hold
to_datetime(text) ==
    CASE text.form = "iso" -> text.day * SlotsPerDay
      [] text.form = "stamp" -> text.day * SlotsPerDay + text.slot
      [] OTHER -> NaT

\* Series.dt.date: the calendar day of a timestamp
DtDateByStamp(ts) == ts
DtDate(ts) == (ts \div SlotsPerDay) * SlotsPerDay

\* pd.to_datetime(datetime.date.today()): today's midnight
TodayTs(day) == day * SlotsPerDay
OneDay == SlotsPerDay

(***************************************************************************)
(* DataFrames: a sequence of rows, each a record keyed by the column       *)
(* names.  An empty DataFrame has no columns.                              *)
(***************************************************************************)
Columns(df) == IF df = <<>> THEN {} ELSE DOMAIN df[1]

(***************************************************************************)
(* compute_daily_totals                                                    *)
(***************************************************************************)
DropNa(meals) ==
    LET Parses(r) == to_datetime(r.date) # NaT
    IN SelectSeq(meals, Parses)

GroupSumFirstOnly(m, d) ==
    LET OnDay(r) == DtDate(to_datetime(r.date)) = d
        g == SelectSeq(m, OnDay)
    IN [date |-> d,
        protein |-> g[1].protein, fat |-> g[1].fat,
        carbs |-> g[1].carbs, calories |-> g[1].calories]
\* one group of groupby(m["date"].dt.date).sum(numeric_only=True); the
\* protein, fat, carbs and calories cells are numbers, the columns numeric
GroupSum(m, d) ==
    LET OnDay(r) == DtDate(to_datetime(r.date)) = d
        g == SelectSeq(m, OnDay)
    IN [date |-> d,
        protein |-> SumCol(g, "protein"), fat |-> SumCol(g, "fat"),
        carbs |-> SumCol(g, "carbs"), calories |-> SumCol(g, "calories")]

compute_daily_totals(meals) ==
    IF meals = <<>> THEN <<>>
    ELSE IF "date" \notin Columns(meals) THEN <<>>
    ELSE LET m == DropNa(meals)
             keys == {DtDate(to_datetime(m[i].date)) : i \in DOMAIN m}
             index == SortedSeq(keys)
         IN [i \in 1..Len(index) |-> GroupSum(m, index[i])]

(***************************************************************************)
(* current_streak                                                          *)
(***************************************************************************)
InIndex(daily, day) == \E i \in DOMAIN daily : daily[i].date = day
Loc(daily, day) == daily[CHOOSE i \in DOMAIN daily : daily[i].date = day]

RECURSIVE StreakFrom(_, _, _)
StreakFrom(daily, col, day) ==
    IF InIndex(daily, day) /\ Loc(daily, day)[col]
    THEN 1 + StreakFrom(daily, col, day - OneDay)
    ELSE 0

current_streak_skip_today(daily, col, day) ==
    IF daily = <<>> THEN 0
    ELSE IF InIndex(daily, TodayTs(day))
         THEN StreakFrom(daily, col, TodayTs(day))
         ELSE StreakFrom(daily, col, TodayTs(day) - OneDay)
current_streak(daily, col, day) ==
    IF daily = <<>> THEN 0 ELSE StreakFrom(daily, col, TodayTs(day))

(***************************************************************************)
(* cute_xp_card: the percentage it shows, int(ratio * 100).  The value is  *)
(* num / den tenths (den > 0), the target is in whole units.               *)
(***************************************************************************)
cute_xp_card(num, den, target) ==
    IF target = 0 THEN 0
    ELSE IF num >= target * Deci * den THEN 100
    ELSE (100 * Max(num, 0)) \div (target * Deci * den)

(***************************************************************************)
(* Today's Score (lines 582-586); defined for non-zero targets             *)
(***************************************************************************)
DailyScoreNoCap(p, cal, f, tg) ==
    LET A == tg.protein * Deci
        B == tg.cal * Deci
        C == tg.fat * Deci
        L == LCM(LCM(A, B), C)
    IN (50 * p * (L \div A) + 30 * cal * (L \div B)
          + 20 * (C - f) * (L \div C)) \div L
DailyScore(p, cal, f, tg) ==
    LET A == tg.protein * Deci
        B == tg.cal * Deci
        C == tg.fat * Deci
        L == LCM(LCM(A, B), C)
    IN (50 * Min(p, A) * (L \div A) + 30 * Min(cal, B) * (L \div B)
          + 20 * (C - Min(f, C)) * (L \div C)) \div L

(***************************************************************************)
(* Cached reads and writes (lines 50-60)                                   *)
(***************************************************************************)
\* str(c).strip().lower().replace(" ", "_") on the header cells that occur
\* in the sheets of this model
NormaliseHeader(h) ==
    CASE h = "Date" -> "date"
      [] h = "Food Name" -> "food_name"
      [] OTHER -> h
\* df.columns = [...] (lines 54-55)
Normalised(df) ==
    IF df = <<>> THEN df
    ELSE IF \A k \in DOMAIN df[1] : NormaliseHeader(k) = k THEN df
    ELSE [i \in DOMAIN df |->
            [h \in {NormaliseHeader(k) : k \in DOMAIN df[1]} |->
                df[i][CHOOSE k \in DOMAIN df[1] : NormaliseHeader(k) = h]]]

NoEntry == [valid |-> FALSE, df |-> <<>>, age |-> 0]
EmptyCache == [t \in Tables |-> NoEntry]

\* @st.cache_data(ttl=60) read_records(ws_title).  up: the remote store
\* answers; when it does not, get_all_records raises and nothing is cached.
\* A sheet is the sequence of records get_all_records returns, keyed by the
\* header cells as typed in the sheet; the DataFrame is keyed by their
\* normalised form.
read_records(c, s, t, up) ==
    IF c[t].valid /\ c[t].age < TTL
    THEN [ok |-> TRUE, df |-> c[t].df, cache |-> c, hit |-> TRUE, age |-> c[t].age]
    ELSE IF ~up
    THEN [ok |-> FALSE, df |-> <<>>, cache |-> c, hit |-> FALSE, age |-> 0]
    ELSE \* bound once, so that the DataFrame is built once
         CHOOSE r \in {[ok |-> TRUE, df |-> df,
                        cache |-> [c EXCEPT ![t] = [valid |-> TRUE, df |-> df, age |-> 0]],
                        hit |-> FALSE, age |-> 0] : df \in {Normalised(s[t])}} : TRUE

WriteOverLast(s, t, row) ==
    IF s[t] = <<>> THEN [s EXCEPT ![t] = <<row>>]
    ELSE [s EXCEPT ![t] = [@ EXCEPT ![Len(@)] = row]]
\* worksheet.append_row(row)
WriteRow(s, t, row) == [s EXCEPT ![t] = Append(@, row)]

\* append_row writes the values by position: each lands under the header
\* cell of its column, whatever that cell reads.  row is keyed by the names
\* the program means; a sheet without rows has those names as its header.
UnderHeader(sheet, row) ==
    IF sheet = <<>> \/ DOMAIN sheet[1] = DOMAIN row THEN row
    ELSE LET Cell(c) ==
                 IF \E k \in DOMAIN sheet[1] : NormaliseHeader(k) = c
                 THEN CHOOSE k \in DOMAIN sheet[1] : NormaliseHeader(k) = c
                 ELSE CHOOSE k \in DOMAIN sheet[1] :
                          NormaliseHeader(k) \notin DOMAIN row
         IN [k \in {Cell(c) : c \in DOMAIN row} |->
                row[CHOOSE c \in DOMAIN row : Cell(c) = k]]

AfterWriteKeepCache(c) == c
\* st.cache_data.clear()
AfterWrite(c) == EmptyCache

(***************************************************************************)
(* One script run threads a context: the sheets, the cache, the session's  *)
(* badge_pop_key, the DataFrame last read and what the run showed.         *)
(***************************************************************************)
NoKey == 0
NoTotals == [protein |-> 0, fat |-> 0, carbs |-> 0, calories |-> 0]
NoSmart == [food |-> "", grams |-> 0, shown |-> FALSE, macros |-> NoTotals]

BlankView(p, day, refresh) ==
    [page |-> p, today |-> day, refreshed |-> refresh,
     error |-> "none", failed |-> "none", log |-> <<>>,
     hud |-> "none", daily |-> <<>>, protein_streak |-> 0, perfect_streak |-> 0,
     has_today |-> FALSE, unlocked |-> <<>>, celebrated |-> FALSE,
     confetti |-> FALSE, cards |-> <<>>,
     forms |-> FALSE, smart |-> NoSmart, added |-> "none",
     summary |-> "none", totals |-> NoTotals, score |-> 0, body |-> "none"]

Halted(ctx) == ctx.view.error # "none"

LogRead(t, r) == [op |-> "read", table |-> t, df |-> r.df, hit |-> r.hit, age |-> r.age]
LogAppend(t) == [op |-> "append", table |-> t, df |-> <<>>, hit |-> FALSE, age |-> 0]

\* df = read_records(t) inside a run
Read(ctx, t, up) ==
    LET r == read_records(ctx.cache, ctx.store, t, up)
    IN IF r.ok
       THEN [ctx EXCEPT !.cache = r.cache, !.df = r.df,
                        !.view.log = Append(@, LogRead(t, r))]
       ELSE [ctx EXCEPT !.df = <<>>, !.view.error = "APIError", !.view.failed = "read"]

\* append_row(t, row) inside a run (lines 58-60)
append_row(ctx, t, row, kind, up) ==
    IF ~up THEN [ctx EXCEPT !.view.error = "APIError", !.view.failed = "append"]
    ELSE [ctx EXCEPT !.store = WriteRow(@, t, UnderHeader(ctx.store[t], row)),
                     !.cache = AfterWrite(@),
                     !.view.log = Append(@, LogAppend(t)),
                     !.view.added = kind]

Card(label, num, den, target) ==
    [label |-> label, target |-> target, percent |-> cute_xp_card(num, den, target)]

(***************************************************************************)
(* TODAY LOG: Quest HUD, streaks and badges (lines 431-491)                *)
(***************************************************************************)
\* daily["hit_protein"], daily["perfect_day"] (lines 445-446)
WithFlags(daily, tg) ==
    [i \in DOMAIN daily |->
        [date |-> daily[i].date, protein |-> daily[i].protein, fat |-> daily[i].fat,
         carbs |-> daily[i].carbs, calories |-> daily[i].calories,
         hit_protein |-> daily[i].protein >= tg.protein * Deci,
         perfect_day |-> daily[i].protein >= tg.protein * Deci
                         /\ daily[i].calories <= tg.cal * Deci]]

If(c, x) == IF c THEN <<x>> ELSE <<>>

UnlockedHighestOnly(has_today, today_row, protein_streak, tg) ==
    <<"First Log">>
    \o If(has_today /\ today_row.protein >= tg.protein * Deci, "Protein Boss")
    \o If(has_today /\ today_row.protein >= tg.protein * Deci
            /\ today_row.calories <= tg.cal * Deci, "Perfect Day")
    \o (IF protein_streak >= 14 THEN <<"14-Day Streak">>
        ELSE IF protein_streak >= 7 THEN <<"7-Day Streak">>
        ELSE IF protein_streak >= 3 THEN <<"3-Day Streak">>
        ELSE <<>>)
\* the unlocked list (lines 460-473)
Unlocked(has_today, today_row, protein_streak, tg) ==
    <<"First Log">>
    \o If(has_today /\ today_row.protein >= tg.protein * Deci, "Protein Boss")
    \o If(has_today /\ today_row.protein >= tg.protein * Deci
            /\ today_row.calories <= tg.cal * Deci, "Perfect Day")
    \o If(protein_streak >= 3, "3-Day Streak")
    \o If(protein_streak >= 7, "7-Day Streak")
    \o If(protein_streak >= 14, "14-Day Streak")

BadgePopWhenever(unlocked, stored, key) == unlocked # <<>>
\* if unlocked and st.session_state["badge_pop_key"] != key (line 482)
BadgePop(unlocked, stored, key) == unlocked # <<>> /\ stored # key

Hud(ctx, tg, day, up) ==
    LET c1 == Read(ctx, "Meals", up)
        daily0 == compute_daily_totals(c1.df)
        daily == WithFlags(daily0, tg)
        protein_streak == current_streak(daily, "hit_protein", day)
        perfect_streak == current_streak(daily, "perfect_day", day)
        has_today == InIndex(daily, TodayTs(day))
        today_row == IF has_today THEN Loc(daily, TodayTs(day)) ELSE NoTotals
        unlocked == Unlocked(has_today, today_row, protein_streak, tg)
        key == day
        pop == BadgePop(unlocked, c1.key, key)
    IN IF Halted(c1) THEN c1
       ELSE IF daily0 = <<>> THEN [c1 EXCEPT !.view.hud = "nodata"]
       ELSE [c1 EXCEPT
               !.view.hud = "shown",
               !.view.daily = daily,
               !.view.protein_streak = protein_streak,
               !.view.perfect_streak = perfect_streak,
               !.view.cards = @ \o <<Card("Protein Streak", protein_streak * Deci, 1, 7),
                                     Card("Perfect Day Streak", perfect_streak * Deci, 1, 7)>>,
               !.view.has_today = has_today,
               !.view.unlocked = unlocked,
               !.view.celebrated = pop,
               !.view.confetti = pop /\ "Perfect Day" \in Range(unlocked),
               !.key = IF pop THEN key ELSE @]

(***************************************************************************)
(* TODAY LOG: Smart Food Entry (lines 493-529)                             *)
(***************************************************************************)
\* grams / 100
PerHundred == 100
\* (grams / 100) * float(cell): exact, in units of 1 / (PerHundred * Centi)
Scaled(grams, cell) == grams * cell
FineUnit == (PerHundred * Centi) \div Deci

RoundDown(x, tieUp) == x \div FineUnit
\* round(x, 1), in tenths; tieUp: which way the binary float of an exact
\* decimal tie falls
Round1(x, tieUp) ==
    LET q == x \div FineUnit
        r == x % FineUnit
    IN IF 2 * r > FineUnit \/ (2 * r = FineUnit /\ tieUp) THEN q + 1 ELSE q

FoodCheck(ctx, up) ==
    LET c1 == Read(ctx, "FoodDatabase", up)
    IN IF Halted(ctx) THEN ctx
       ELSE IF Halted(c1) THEN c1
       ELSE IF c1.df = <<>> \/ "food_name" \notin Columns(c1.df)
       THEN [c1 EXCEPT !.view.error = "stop"]
       ELSE c1

SmartEntry(ctx, btn, in, day, up) ==
    LET food_data == ctx.df
        food_row == food_data[in.food]
        protein == Scaled(in.grams, food_row.protein_per_100g)
        fat == Scaled(in.grams, food_row.fat_per_100g)
        carbs == Scaled(in.grams, food_row.carbs_per_100g)
        calories == Scaled(in.grams, food_row.calories_per_100g)
        row == [date |-> IsoDate(day), meal_name |-> food_row.food_name,
                protein |-> Round1(protein, in.tieUp), fat |-> Round1(fat, in.tieUp),
                carbs |-> Round1(carbs, in.tieUp), calories |-> Round1(calories, in.tieUp)]
        shown == [ctx EXCEPT !.view.smart =
                    [food |-> food_row.food_name, grams |-> in.grams, shown |-> TRUE,
                     macros |-> [protein |-> protein, fat |-> fat,
                                 carbs |-> carbs, calories |-> calories]]]
    IN IF Halted(ctx) THEN ctx
       ELSE IF in.food \in DOMAIN food_data /\ in.grams > 0
       THEN IF btn = "smart" THEN append_row(shown, "Meals", row, "smart", up)
            ELSE shown
       ELSE [ctx EXCEPT !.view.smart.grams = in.grams]

(***************************************************************************)
(* TODAY LOG: Manual Entry (lines 531-554)                                 *)
(***************************************************************************)
ManualEntry(ctx, btn, in, day, up) ==
    LET m == in.manual
        calories_m == m.protein * 4 + m.fat * 9 + m.carbs * 4
        row == [date |-> IsoDate(day), meal_name |-> "manual",
                protein |-> m.protein, fat |-> m.fat, carbs |-> m.carbs,
                calories |-> calories_m]
        c1 == [ctx EXCEPT !.view.forms = TRUE]
    IN IF Halted(ctx) THEN ctx
       ELSE IF btn = "manual" THEN append_row(c1, "Meals", row, "manual", up)
       ELSE c1

(***************************************************************************)
(* TODAY LOG: Today's Summary and score (lines 556-586)                    *)
(***************************************************************************)
Summary(ctx, tg, day, up) ==
    LET c1 == Read(ctx, "Meals", up)
        meals == c1.df
        IsToday(r) == r.date = IsoDate(day)
        df_today == SelectSeq(meals, IsToday)
        total_p == SumCol(df_today, "protein")
        total_f == SumCol(df_today, "fat")
        total_c == SumCol(df_today, "carbs")
        total_cal == SumCol(df_today, "calories")
        c2 == [c1 EXCEPT
                 !.view.summary = "shown",
                 !.view.totals = [protein |-> total_p, fat |-> total_f,
                                  carbs |-> total_c, calories |-> total_cal],
                 !.view.cards = @ \o <<Card("Protein Today", total_p, 1, tg.protein),
                                       Card("Calories Today", total_cal, 1, tg.cal)>>]
    IN IF Halted(ctx) THEN ctx
       ELSE IF Halted(c1) THEN c1
       ELSE IF meals = <<>> THEN [c1 EXCEPT !.view.summary = "empty"]
       ELSE IF "date" \notin Columns(meals) THEN [c1 EXCEPT !.view.error = "stop"]
       ELSE IF df_today = <<>> THEN [c1 EXCEPT !.view.summary = "notoday"]
       ELSE IF tg.protein = 0 \/ tg.cal = 0 \/ tg.fat = 0
       THEN [c2 EXCEPT !.view.error = "ZeroDivisionError"]
       ELSE [c2 EXCEPT !.view.score = DailyScore(total_p, total_cal, total_f, tg)]

TodayLog(ctx, btn, in, tg, day, up) ==
    Summary(ManualEntry(SmartEntry(FoodCheck(Hud(ctx, tg, day, up), up),
                                   btn, in, day, up),
                        btn, in, day, up),
            tg, day, up)

(***************************************************************************)
(* WEEK / MONTH / YEAR SUMMARY (lines 588-677).  The calendar is counted   *)
(* in days: a week is 7 days, a month 30, a year 365.  The chart itself is *)
(* not modelled, only which branch the page takes and its cards.           *)
(***************************************************************************)
StatsPages == {"Week Summary", "Month Summary", "Year Summary"}

InPeriod(p, ts, day) ==
    LET d == ts \div SlotsPerDay
    IN CASE p = "Week Summary" -> ts >= TodayTs(day - (day % 7))
         [] p = "Month Summary" -> d \div 30 = day \div 30 /\ d \div 365 = day \div 365
         [] OTHER -> d \div 365 = day \div 365

StatsPage(ctx, p, tg, day, up) ==
    LET c1 == Read(ctx, "Meals", up)
        meals == DropNa(c1.df)
        Within(r) == InPeriod(p, to_datetime(r.date), day)
        period == SelectSeq(meals, Within)
        \* groupby("date"): one group per distinct timestamp; .mean() over them
        n == Cardinality({to_datetime(period[i].date) : i \in DOMAIN period})
        per == IF p = "Week Summary" THEN "Weekly" ELSE "Monthly"
        cards == IF p = "Year Summary" THEN <<>>
                 ELSE <<Card(per \o " Avg Calories", SumCol(period, "calories"), n, tg.cal),
                        Card(per \o " Avg Protein", SumCol(period, "protein"), n, tg.protein)>>
    IN IF Halted(c1) THEN c1
       ELSE IF c1.df = <<>> THEN [c1 EXCEPT !.view.body = "nohistory"]
       \* meals["date"] on a DataFrame without that column
       ELSE IF "date" \notin Columns(c1.df) THEN [c1 EXCEPT !.view.error = "KeyError"]
       ELSE IF period = <<>> THEN [c1 EXCEPT !.view.body = "noperiod"]
       ELSE [c1 EXCEPT !.view.body = "chart", !.view.cards = cards]

(***************************************************************************)
(* WEIGHT (lines 679-703) and WORKOUTS (lines 705-723)                     *)
(***************************************************************************)
WeightPage(ctx, btn, in, day, up) ==
    LET row == [date |-> IsoDate(day), weight_kg |-> in.weight]
        c1 == IF btn = "weight" THEN append_row(ctx, "Weights", row, "weight", up)
              ELSE ctx
        c2 == Read(c1, "Weights", up)
    IN IF Halted(c1) THEN c1
       ELSE IF Halted(c2) THEN c2
       ELSE [c2 EXCEPT !.view.body =
               IF c2.df # <<>> /\ "date" \in Columns(c2.df) /\ "weight_kg" \in Columns(c2.df)
               THEN "chart" ELSE "info"]

WorkoutsPage(ctx, btn, in, day, up) ==
    LET row == [date |-> IsoDate(day), workout_name |-> "yoga",
                youtube_link |-> "", notes |-> ""]
        c1 == IF btn = "workout" THEN append_row(ctx, "Workouts", row, "workout", up)
              ELSE ctx
        c2 == Read(c1, "Workouts", up)
    IN IF Halted(c1) THEN c1
       ELSE IF Halted(c2) THEN c2
       ELSE [c2 EXCEPT !.view.body = IF c2.df # <<>> THEN "table" ELSE "info"]

(***************************************************************************)
(* One run of the script (lines 367-724): sidebar, then the page           *)
(***************************************************************************)
Groups == {"Daily", "Stats", "Body"}
PagesOf(g) ==
    CASE g = "Daily" -> <<"Today Log">>
      [] g = "Stats" -> <<"Week Summary", "Month Summary", "Year Summary">>
      [] OTHER -> <<"Weight Progress", "Workouts">>

RenderPage(ctx, p, btn, in, tg, day, up) ==
    CASE p = "Today Log" -> TodayLog(ctx, btn, in, tg, day, up)
      [] p \in StatsPages -> StatsPage(ctx, p, tg, day, up)
      [] p = "Weight Progress" -> WeightPage(ctx, btn, in, day, up)
      [] OTHER -> WorkoutsPage(ctx, btn, in, day, up)

\* refresh: the sidebar's Refresh button was the click that started the run
Run(p, refresh, btn, in, up) ==
    LET c0 == [store |-> store,
               cache |-> IF refresh THEN EmptyCache ELSE cache,
               key |-> badge_pop_key, df |-> <<>>,
               view |-> BlankView(p, today, refresh)]
    IN \E c1 \in {RenderPage(c0, p, btn, in, targets, today, up)} :
       /\ store' = c1.store
       /\ cache' = c1.cache
       /\ badge_pop_key' = c1.key
       /\ view' = c1.view
       /\ page' = p
       /\ nappend' = IF c1.view.added # "none" THEN nappend + 1 ELSE nappend
       /\ fired' = IF c1.view.celebrated THEN Append(fired, today) ELSE fired
       /\ UNCHANGED <<today, targets>>

(***************************************************************************)
(* Inputs the user can give                                                *)
(***************************************************************************)
Foods ==
    << [food_name |-> "chicken", protein_per_100g |-> 3100, fat_per_100g |-> 360,
        carbs_per_100g |-> 0, calories_per_100g |-> 16500],
       [food_name |-> "yogurt", protein_per_100g |-> 1028, fat_per_100g |-> 40,
        carbs_per_100g |-> 350, calories_per_100g |-> 5900] >>
GramsInputs == {0, 50, 100}
ManualInputs ==
    { [protein |-> 1100, fat |-> 200, carbs |-> 500],
      [protein |-> 3000, fat |-> 1000, carbs |-> 0] }
WeightInputs == {552}
NoInput == [food |-> 1, grams |-> 0, tieUp |-> FALSE,
            manual |-> [protein |-> 0, fat |-> 0, carbs |-> 0], weight |-> 0]

(***************************************************************************)
(* Actions: one per interaction, each a whole script run.  Ups is the set  *)
(* of answers the remote store may give during the run (TRUE: it answers); *)
(* the other parameters are the sets the user's inputs are drawn from.     *)
(***************************************************************************)
\* opening the app, or a rerun that no button started
Load(Ups) ==
    \E up \in Ups :
        /\ Run(page, FALSE, "none", NoInput, up)
        /\ UNCHANGED nav_group

\* the sidebar's "Refresh data" button (lines 397-399)
ClickRefresh(Ups) ==
    \E up \in Ups :
        /\ view.page # ""
        /\ Run(page, TRUE, "none", NoInput, up)
        /\ UNCHANGED nav_group

\* the sidebar's Daily / Stats / Body buttons (lines 406-423)
ClickNav(Ups) ==
    \E g \in Groups, up \in Ups :
        /\ view.page # ""
        /\ nav_group' = g
        /\ Run(IF g = nav_group THEN page ELSE PagesOf(g)[1], FALSE, "none", NoInput, up)

\* the sidebar's page radio (lines 418-423)
SelectPage(Ups) ==
    \E p \in Range(PagesOf(nav_group)), up \in Ups :
        /\ view.page # ""
        /\ p # page
        /\ Run(p, FALSE, "none", NoInput, up)
        /\ UNCHANGED nav_group

\* choosing a food and grams without pressing a button (lines 501-515)
PreviewSmart(F, G, Ups) ==
    \E f \in F, g \in G, up \in Ups :
        /\ page = "Today Log" /\ view.page = page /\ view.forms
        /\ Run(page, FALSE, "none", [NoInput EXCEPT !.food = f, !.grams = g], up)
        /\ UNCHANGED nav_group

\* "Add Smart Entry" (lines 517-529); the button exists only when grams > 0
AddSmartEntry(F, G, Ups) ==
    \E f \in F, g \in G, tie \in BOOLEAN, up \in Ups :
        /\ page = "Today Log" /\ view.page = page /\ view.forms
        /\ g > 0
        /\ nappend < MaxAppends
        /\ Run(page, FALSE, "smart",
               [NoInput EXCEPT !.food = f, !.grams = g, !.tieUp = tie], up)
        /\ UNCHANGED nav_group

\* "Add Manual Entry" (lines 542-554)
AddManualEntry(M, Ups) ==
    \E m \in M, up \in Ups :
        /\ page = "Today Log" /\ view.page = page /\ view.forms
        /\ nappend < MaxAppends
        /\ Run(page, FALSE, "manual", [NoInput EXCEPT !.manual = m], up)
        /\ UNCHANGED nav_group

\* "Save Weight" (lines 687-689)
SaveWeight(Ups) ==
    \E w \in WeightInputs, up \in Ups :
        /\ page = "Weight Progress" /\ view.page = page
        /\ nappend < MaxAppends
        /\ Run(page, FALSE, "weight", [NoInput EXCEPT !.weight = w], up)
        /\ UNCHANGED nav_group

\* "Save Workout" (lines 715-717)
SaveWorkout(Ups) ==
    \E up \in Ups :
        /\ page = "Workouts" /\ view.page = page
        /\ nappend < MaxAppends
        /\ Run(page, FALSE, "workout", NoInput, up)
        /\ UNCHANGED nav_group

\* TickSeconds pass between two runs
Tick ==
    /\ \E t \in Tables : cache[t].valid /\ cache[t].age < TTL
    /\ cache' = [t \in Tables |->
                   IF cache[t].valid
                   THEN [cache[t] EXCEPT !.age = Min(@ + TickSeconds, TTL)]
                   ELSE cache[t]]
    /\ UNCHANGED <<store, today, nav_group, page, badge_pop_key, targets, view,
                   nappend, fired>>

\* midnight passes between two runs (more than the TTL)
NextDay ==
    /\ today < Today0 + MaxDays
    /\ today' = today + 1
    /\ cache' = [t \in Tables |->
                   IF cache[t].valid THEN [cache[t] EXCEPT !.age = TTL] ELSE cache[t]]
    /\ UNCHANGED <<store, nav_group, page, badge_pop_key, targets, view, nappend, fired>>

(***************************************************************************)
(* Initial states: the sheets as the session finds them                    *)
(***************************************************************************)
Good(d) == [date |-> IsoDate(d), meal_name |-> "hist",
            protein |-> 1150, fat |-> 200, carbs |-> 500, calories |-> 11000]
Over(d) == [date |-> IsoDate(d), meal_name |-> "hist",
            protein |-> 1150, fat |-> 500, carbs |-> 1500, calories |-> 13000]
Low(d) == [date |-> IsoDate(d), meal_name |-> "hist",
           protein |-> 300, fat |-> 100, carbs |-> 400, calories |-> 4000]
Stamped(d) == [Good(d) EXCEPT !.date = StampDate(d, SlotsPerDay - 1)]
Unparsable == [Good(0) EXCEPT !.date = BadDate]

\* k consecutive logged days ending yesterday
Consec(k) == [i \in 1..k |-> Good(Today0 - k - 1 + i)]

History(k, shape) ==
    CASE shape = "plain" -> Consec(k)
      [] shape = "today" -> Consec(k) \o <<Good(Today0)>>
      [] shape = "gap" -> <<Good(Today0 - k - 2)>> \o Consec(k) \o <<Good(Today0)>>
      [] shape = "stamp" -> <<Stamped(Today0)>> \o Consec(k) \o <<Low(Today0)>>
      [] shape = "bad" -> <<Low(Today0), Unparsable>> \o Consec(k)
      [] shape = "onlybad" -> <<Unparsable>>
      [] OTHER -> Consec(k) \o <<Over(Today0)>>

\* the Meals sheets a session may start from
Histories ==
    {History(k, shape) : k \in {0, 2, 6, MaxHist}, shape \in {"plain", "today"}}
    \cup {History(1, shape) : shape \in {"gap", "stamp", "bad", "onlybad", "over"}}

CodeTargets == [cal |-> CAL_TARGET, protein |-> PROTEIN_TARGET,
                fat |-> FAT_TARGET, carb |-> CARB_TARGET]

InitOf(meals, foods, tg) ==
    /\ store = [t \in Tables |->
                  CASE t = "Meals" -> meals
                    [] t = "FoodDatabase" -> foods
                    [] OTHER -> <<>>]
    /\ cache = EmptyCache
    /\ today = Today0
    /\ nav_group = "Daily"
    /\ page = "Today Log"
    /\ badge_pop_key = NoKey
    /\ targets = tg
    /\ view = BlankView("", Today0, FALSE)
    /\ nappend = 0
    /\ fired = <<>>

InitWith(hist, tg) == InitOf(hist, Foods, tg)

(***************************************************************************)
(* Spec: the whole app within one calendar day (navigation, cache, a store *)
(* that may not answer), with one food, one gram amount and one manual     *)
(* entry.                                                                  *)
(***************************************************************************)
Init == \E hist \in {<<>>, History(2, "today")} : InitWith(hist, CodeTargets)

Next ==
    \/ Load(BOOLEAN)
    \/ ClickRefresh(BOOLEAN)
    \/ ClickNav(BOOLEAN)
    \/ SelectPage(BOOLEAN)
    \/ PreviewSmart({1}, {100}, BOOLEAN)
    \/ AddSmartEntry({1}, {100}, BOOLEAN)
    \/ AddManualEntry({[protein |-> 1100, fat |-> 200, carbs |-> 500]}, BOOLEAN)
    \/ SaveWeight(BOOLEAN)
    \/ SaveWorkout(BOOLEAN)
    \/ Tick

Spec == Init /\ [][Next]_vars

(***************************************************************************)
(* SpecLog: the Today Log page alone, the store answering, over every      *)
(* starting sheet and every input (previews without a button: one food).   *)
(***************************************************************************)
InitLog == \E hist \in Histories : InitWith(hist, CodeTargets)

NextLog ==
    \/ Load({TRUE})
    \/ PreviewSmart({Len(Foods)}, GramsInputs, {TRUE})
    \/ AddSmartEntry(DOMAIN Foods, GramsInputs, {TRUE})
    \/ AddManualEntry(ManualInputs, {TRUE})

SpecLog == InitLog /\ [][NextLog]_vars

(***************************************************************************)
(* SpecDays: the Today Log page over several calendar days of one session, *)
(* the store answering or not.                                             *)
(***************************************************************************)
InitDays ==
    \E hist \in {<<>>, History(2, "plain"), History(2, "today")} :
        InitWith(hist, CodeTargets)

NextDays ==
    \/ Load(BOOLEAN)
    \/ AddManualEntry(ManualInputs, BOOLEAN)
    \/ NextDay

SpecDays == InitDays /\ [][NextDays]_vars

(***************************************************************************)
(* SpecSheets: the app, the store answering, over sheets whose header row  *)
(* was typed by hand: the date column of Meals or the food_name column of  *)
(* FoodDatabase may be headed by another word (the column is then missing  *)
(* from the DataFrame), or by a spelling that read_records normalises.     *)
(***************************************************************************)
\* the sheet with the header cell old reading new
Retitled(sheet, old, new) ==
    [i \in DOMAIN sheet |->
        [k \in (DOMAIN sheet[i] \ {old}) \cup {new} |->
            IF k = new THEN sheet[i][old] ELSE sheet[i][k]]]

MealsSheets ==
    {<<>>, History(2, "today"),
     Retitled(History(2, "today"), "date", "day"),
     Retitled(History(2, "today"), "date", "Date")}
FoodSheets ==
    {<<>>, Foods,
     Retitled(Foods, "food_name", "food"),
     Retitled(Foods, "food_name", "Food Name")}

InitSheets ==
    \E meals \in MealsSheets, foods \in FoodSheets : InitOf(meals, foods, CodeTargets)

NextSheets ==
    \/ Load({TRUE})
    \/ ClickNav({TRUE})
    \/ SelectPage({TRUE})
    \/ PreviewSmart({1}, {100}, {TRUE})
    \/ AddSmartEntry({1}, {100}, {TRUE})
    \/ AddManualEntry(ManualInputs, {TRUE})

SpecSheets == InitSheets /\ [][NextSheets]_vars

(***************************************************************************)
(* SpecConfig: the Today Log page under a CONFIG block whose targets may   *)
(* have been set to 0.                                                     *)
(***************************************************************************)
Configs ==
    {[cal |-> c, protein |-> p, fat |-> f, carb |-> CARB_TARGET] :
        c \in {0, CAL_TARGET}, p \in {0, PROTEIN_TARGET}, f \in {0, FAT_TARGET}}

InitConfig ==
    \E hist \in {<<>>, History(2, "today")}, tg \in Configs : InitWith(hist, tg)

NextConfig ==
    \/ Load({TRUE})
    \/ AddManualEntry(ManualInputs, {TRUE})

SpecConfig == InitConfig /\ [][NextConfig]_vars

(***************************************************************************)
(* Vocabulary of the properties                                            *)
(***************************************************************************)
Cols == {"protein", "fat", "carbs", "calories"}

\* the Meals rows the HUD of the last run was computed from (line 431)
MealsRead == view.log[1].df

\* the midnight of the calendar day a date text names; NaT when it names none
MidnightOf(text) ==
    IF text.form \in {"iso", "stamp"} THEN text.day * SlotsPerDay ELSE NaT

RECURSIVE IdxSum(_, _, _)
IdxSum(rows, idx, col) ==
    IF idx = {} THEN 0
    ELSE LET j == CHOOSE x \in idx : TRUE
         IN rows[j][col] + IdxSum(rows, idx \ {j}, col)

RowsFor(daily, d) == {daily[i] : i \in {k \in DOMAIN daily : daily[k].date = d}}
DatesOf(daily) == {daily[i].date : i \in DOMAIN daily}
Remove(seq, j) == SubSeq(seq, 1, j - 1) \o SubSeq(seq, j + 1, Len(seq))
ProbeRows == {Over(Today0), Low(Today0 - 1), Stamped(Today0 - 1), Unparsable}

C2_WitnessNoDate ==
    view.hud = "nodata" /\ MealsRead # <<>>

\* C3: the streak is the largest n such that each of today, today-1, ...,
\* today-(n-1) has a row on which the predicate is true: 0 when today has
\* no row or fails the predicate, whatever came before.
C3_StreakIsTrailingRun ==
    view.hud = "shown" =>
        LET Hit(r) == r.protein >= targets.protein * Deci
            Perfect(r) == Hit(r) /\ r.calories <= targets.cal * Deci
            HitDay(k) == \E r \in RowsFor(view.daily, TodayTs(view.today - k)) : Hit(r)
            PerfectDay(k) == \E r \in RowsFor(view.daily, TodayTs(view.today - k)) : Perfect(r)
        IN /\ \A k \in 0..(view.protein_streak - 1) : HitDay(k)
           /\ ~HitDay(view.protein_streak)
           /\ \A k \in 0..(view.perfect_streak - 1) : PerfectDay(k)
           /\ ~PerfectDay(view.perfect_streak)
           /\ view.protein_streak >= 0 /\ view.perfect_streak >= 0

\* today and yesterday qualify, two days ago is missing, older history exists
C3_Witness ==
    /\ view.hud = "shown"
    /\ view.protein_streak = 2
    /\ RowsFor(view.daily, TodayTs(view.today - 2)) = {}
    /\ \E r \in RowsFor(view.daily, TodayTs(view.today - 3)) :
         r.protein >= targets.protein * Deci

\* C4: with at least one DailyTotals row the badges are exactly those of the
\* rule table, each rule on its own; with none, no badge is produced.
C4_BadgesAreRuleTable ==
    LET rows == RowsFor(view.daily, TodayTs(view.today))
        boss == \E r \in rows : r.protein >= targets.protein * Deci
        perfect == \E r \in rows : r.protein >= targets.protein * Deci
                                   /\ r.calories <= targets.cal * Deci
        table == {"First Log"}
                 \cup (IF boss THEN {"Protein Boss"} ELSE {})
                 \cup (IF perfect THEN {"Perfect Day"} ELSE {})
                 \cup (IF view.protein_streak >= 3 THEN {"3-Day Streak"} ELSE {})
                 \cup (IF view.protein_streak >= 7 THEN {"7-Day Streak"} ELSE {})
                 \cup (IF view.protein_streak >= 14 THEN {"14-Day Streak"} ELSE {})
    IN /\ view.hud = "shown" =>
            /\ Range(view.unlocked) = table
            /\ Len(view.unlocked) = Cardinality(table)
       /\ view.hud # "shown" => view.unlocked = <<>>

\* a 14-day streak: every badge at once
C4_Witness ==
    /\ view.hud = "shown"
    /\ view.protein_streak >= 14
    /\ Cardinality(Range(view.unlocked)) = 6

\* C5: the score is an integer in 0..100 for all totals, however far above
\* the targets, and does not decrease when calories rise from the target up.
C5_ScoreBounded ==
    view.summary = "shown" /\ view.error = "none" =>
        /\ view.score \in 0..100
        /\ view.totals.calories >= targets.cal * Deci =>
             \A more \in {1, 10 * Deci, 5000 * Deci} :
                DailyScore(view.totals.protein, view.totals.calories + more,
                           view.totals.fat, targets) >= view.score
        /\ DailyScore(120 * Deci, 1000 * Deci, 20 * Deci, CodeTargets) = 86

\* protein, calories and fat all far above their targets
C5_Witness ==
    /\ view.summary = "shown" /\ view.error = "none"
    /\ view.totals.protein >= 2 * targets.protein * Deci
    /\ view.totals.calories > targets.cal * Deci
    /\ view.totals.fat >= 2 * targets.fat * Deci

\* C6: every value/target ratio is guarded against a target of 0: the ratio
\* is then taken as 1.0 (the card shows 100%) and no division by zero occurs.
C6_ZeroTargetGuarded ==
    /\ view.error # "ZeroDivisionError"
    /\ \A i \in DOMAIN view.cards :
         view.cards[i].target = 0 => view.cards[i].percent = 100

Profile(name) == CHOOSE f \in Range(Foods) : f.food_name = name
Per100(f, col) ==
    CASE col = "protein" -> f.protein_per_100g
      [] col = "fat" -> f.fat_per_100g
      [] col = "carbs" -> f.carbs_per_100g
      [] OTHER -> f.calories_per_100g
Last(seq) == seq[Len(seq)]
Abs(x) == IF x < 0 THEN -x ELSE x

IsPrefix(a, b) == Len(a) <= Len(b) /\ SubSeq(b, 1, Len(a)) = a
RECURSIVE TotalRows(_, _)
TotalRows(s, T) ==
    IF T = {} THEN 0
    ELSE LET t == CHOOSE x \in T : TRUE IN Len(s[t]) + TotalRows(s, T \ {t})

\* C8: the log is append-only: every step leaves each table's rows as a
\* prefix of its rows afterwards, adds at most one row in all, and never
\* writes FoodDatabase.
C8_AppendOnly ==
    [][ /\ \A t \in Tables : IsPrefix(store[t], store'[t])
        /\ TotalRows(store', Tables) <= TotalRows(store, Tables) + 1
        /\ store'["FoodDatabase"] = store["FoodDatabase"] ]_vars

\* rows appended to two tables, the later one behind an earlier row
C8_Witness ==
    /\ view.added = "manual"
    /\ Len(store["Meals"]) >= 2
    /\ store["Weights"] # <<>>

\* C9: write-then-invalidate: no cached value is older than an append made
\* through the program; every read returns the table as it was in the store
\* at that moment; a cached value is served only younger than the TTL, with
\* no append before it in the run, and after a refresh only once refetched.
C9_WriteThenInvalidate ==
    /\ \A t \in Tables : cache[t].valid => cache[t].df = store[t]
    /\ \A i \in DOMAIN view.log :
         view.log[i].op = "read" =>
            LET t == view.log[i].table
                later == Cardinality({j \in DOMAIN view.log :
                            j > i /\ view.log[j].op = "append" /\ view.log[j].table = t})
            IN /\ view.log[i].df = SubSeq(store[t], 1, Len(store[t]) - later)
               /\ view.log[i].hit =>
                    /\ view.log[i].age < TTL
                    /\ \A j \in 1..(i - 1) : view.log[j].op # "append"
                    /\ view.refreshed =>
                         \E j \in 1..(i - 1) :
                            /\ view.log[j].op = "read" /\ view.log[j].table = t
                            /\ ~view.log[j].hit

\* a run that read Meals from the cache, appended a row and read Meals
\* again: the second read fetched, and holds the new row
C9_Witness ==
    \E i, j, k \in DOMAIN view.log :
        /\ i < j /\ j < k
        /\ view.log[i].op = "read" /\ view.log[i].table = "Meals" /\ view.log[i].hit
        /\ view.log[i].age > 0
        /\ view.log[j].op = "append" /\ view.log[j].table = "Meals"
        /\ view.log[k].op = "read" /\ view.log[k].table = "Meals" /\ ~view.log[k].hit
        /\ Len(view.log[k].df) = Len(view.log[i].df) + 1

\* C10: a failed read is treated as an empty table: no error escapes it and
\* the page shows its "no data yet" state.
C10_FailedReadAsEmpty ==
    view.failed = "read" =>
        /\ view.error = "none"
        /\ view.page = "Today Log" =>
             /\ view.hud = "nodata"
             /\ view.unlocked = <<>>
             /\ view.protein_streak = 0 /\ view.perfect_streak = 0

(***************************************************************************)
(* Missing columns                                                         *)
(***************************************************************************)
\* the run read a non-empty table t and found no column col in it
ReadWithout(t, col) ==
    \E i \in DOMAIN view.log :
        /\ view.log[i].op = "read" /\ view.log[i].table = t
        /\ view.log[i].df # <<>> /\ col \notin Columns(view.log[i].df)
\* no totals, streaks, badges, summary or score were computed or shown (the
\* "log your first meal" note may have been), and nothing was written
NothingComputed ==
    /\ view.hud # "shown" /\ view.daily = <<>> /\ view.unlocked = <<>>
    /\ ~view.celebrated /\ view.cards = <<>>
    /\ view.summary = "none" /\ view.score = 0
    /\ view.added = "none"

\* C11: a Today Log run that finds food_name missing from FoodDatabase, or
\* date missing from a non-empty Meals table, is stopped with an error
\* shown, and has computed and shown no daily totals, streaks, badges,
\* summary or score, and has appended no row.
C11_MissingColumnAborts ==
    (view.page = "Today Log"
        /\ (ReadWithout("FoodDatabase", "food_name") \/ ReadWithout("Meals", "date")))
    => (view.error = "stop" /\ NothingComputed)

(***************************************************************************)
(* Badge celebration                                                       *)
(***************************************************************************)
NoRepeat(seq) == \A i, j \in DOMAIN seq : seq[i] = seq[j] => i = j

\* C12: within a session the badge celebration fires at most once per
\* calendar day: every Today Log render that finds daily totals has the
\* celebration of its day behind it (so the first such render of a day is
\* the one that fires, and the first of another day fires again), a render
\* that fires leaves badge_pop_key at its day's key, and no day is
\* celebrated twice, whatever badges a later render unlocks.
C12_CelebratesOncePerDay ==
    /\ NoRepeat(fired)
    /\ (view.page = "Today Log" /\ view.daily # <<>>) => view.today \in Range(fired)
    /\ view.celebrated =>
          /\ view.page = "Today Log" /\ view.daily # <<>>
          /\ Last(fired) = view.today
    /\ fired # <<>> => badge_pop_key = Last(fired)

\* C12 witness: both days were celebrated, each on its first render with
\* totals, when today held no row yet (the HUD precedes the forms); a later
\* render of the second day unlocks Protein Boss and fires nothing.
C12_Witness ==
    /\ fired = <<Today0, Today0 + 1>>
    /\ view.today = Today0 + 1 /\ view.page = "Today Log"
    /\ "Protein Boss" \in Range(view.unlocked)
    /\ ~view.celebrated

(***************************************************************************)
(* Today's Summary against DailyTotals                                     *)
(***************************************************************************)
\* the Meals rows the Today's Summary section read (the run's last read)
SummaryRead ==
    LET I == {i \in DOMAIN view.log :
                 view.log[i].op = "read" /\ view.log[i].table = "Meals"}
    IN view.log[CHOOSE i \in I : \A j \in I : j <= i].df

\* C13: the today totals of the Today's Summary section equal the row that
\* compute_daily_totals gives for today from the same Meals rows: either
\* neither has data for today, or the four sums agree.
C13_SummaryIsTodayRow ==
    (view.page = "Today Log" /\ view.error = "none" /\ view.summary # "none") =>
        LET daily == compute_daily_totals(SummaryRead)
            has == InIndex(daily, TodayTs(view.today))
        IN IF view.summary = "shown"
           THEN has /\ \A col \in Cols :
                          Loc(daily, TodayTs(view.today))[col] = view.totals[col]
           ELSE ~has

====
